---- MODULE Spec2Model ----
(***************************************************************************)
(* Rurtle: the turtle state machine (src/src/turtle.rs) and the           *)
(* environment builtins (src/src/environ/functions/env.rs, types.rs).     *)
(*                                                                         *)
(* All coordinates, angles and colour channels of the program are f32.    *)
(* An f32 is modelled bit-exactly as a record [s, m, e] standing for      *)
(* (-1)^s * m * 2^e with m = 0 (a signed zero, e = 0) or                   *)
(* 2^23 <= m < 2^24.  Arithmetic rounds to nearest, ties to even, as the  *)
(* hardware does.  The inputs are finite and far from the overflow and    *)
(* subnormal ranges, so infinities, NaN and subnormals do not arise.      *)
(***************************************************************************)
EXTENDS Integers, Sequences, FiniteSets, TLC

----------------------------------------------------------------------------
(* f32 arithmetic *)

Pow2(n) == 2^n

RECURSIVE BitLen(_)
BitLen(n) == IF n = 0 THEN 0 ELSE 1 + BitLen(n \div 2)

FZero(s) == [s |-> s, m |-> 0, e |-> 0]

IsZero(a) == a.m = 0

\* (-1)^s * n * 2^e for an integer 0 <= n < 2^30 whose lowest bit also stands
\* for every discarded lower bit ("jamming"), rounded to 24 significant bits.
RoundNorm(s, n, e) ==
  IF n = 0 THEN FZero(s)
  ELSE LET nb == BitLen(n) IN
    IF nb <= 24
    THEN [s |-> s, m |-> n * Pow2(24 - nb), e |-> e - (24 - nb)]
    ELSE LET k    == nb - 24
             q    == n \div Pow2(k)
             r    == n % Pow2(k)
             half == Pow2(k - 1)
             up   == r > half \/ (r = half /\ q % 2 = 1)
             q1   == IF up THEN q + 1 ELSE q
         IN IF q1 = Pow2(24)
            THEN [s |-> s, m |-> Pow2(23), e |-> e + k + 1]
            ELSE [s |-> s, m |-> q1, e |-> e + k]

\* n shifted right by d bits, the bits shifted out or-ed into the lowest bit
ShiftRightJam(n, d) ==
  IF d > 30 THEN (IF n = 0 THEN 0 ELSE 1)
  ELSE LET q == n \div Pow2(d)
           r == n % Pow2(d)
       IN IF r # 0 /\ q % 2 = 0 THEN q + 1 ELSE q

\* the f32 of a small integer, |n| < 2^24 (exact)
FInt(n) == IF n < 0 THEN RoundNorm(1, -n, 0) ELSE RoundNorm(0, n, 0)

FNeg(a) == [a EXCEPT !.s = 1 - a.s]

\* a + b
FAdd(a, b) ==
  IF IsZero(a) /\ IsZero(b) THEN FZero(IF a.s = 1 /\ b.s = 1 THEN 1 ELSE 0)
  ELSE IF IsZero(a) THEN b
  ELSE IF IsZero(b) THEN a
  ELSE LET aBig == a.e > b.e \/ (a.e = b.e /\ a.m >= b.m)
           hi   == IF aBig THEN a ELSE b
           lo   == IF aBig THEN b ELSE a
           H    == hi.m * 8
           L    == ShiftRightJam(lo.m * 8, hi.e - lo.e)
       IN IF hi.s = lo.s
          THEN RoundNorm(hi.s, H + L, hi.e - 3)
          ELSE IF H = L THEN FZero(0)
               ELSE RoundNorm(hi.s, H - L, hi.e - 3)

\* a + b is computed without rounding: no bit of the smaller operand is
\* shifted out and the sum has at most 24 significant bits
AddIsExact(a, b) ==
  \/ IsZero(a)
  \/ IsZero(b)
  \/ LET aBig == a.e > b.e \/ (a.e = b.e /\ a.m >= b.m)
         hi   == IF aBig THEN a ELSE b
         lo   == IF aBig THEN b ELSE a
         d    == hi.e - lo.e
         n    == IF hi.s = lo.s THEN hi.m * 8 + (lo.m * 8) \div Pow2(d)
                 ELSE hi.m * 8 - (lo.m * 8) \div Pow2(d)
     IN /\ d <= 26
        /\ (lo.m * 8) % Pow2(d) = 0
        /\ n = 0 \/ BitLen(n) <= 24 \/ n % Pow2(BitLen(n) - 24) = 0

\* a - b
FSub(a, b) == FAdd(a, FNeg(b))

\* a * b
FMul(a, b) ==
  LET s == (a.s + b.s) % 2 IN
  IF IsZero(a) \/ IsZero(b) THEN FZero(s)
  ELSE LET a1   == a.m \div 4096
           a0   == a.m % 4096
           b1   == b.m \div 4096
           b0   == b.m % 4096
           mid  == a1 * b0 + a0 * b1
           t    == a0 * b0 + (mid % 4096) * 4096
           low  == t % Pow2(24)
           high == a1 * b1 + mid \div 4096 + t \div Pow2(24)
           top  == high * 8 + low \div Pow2(21)
           jam  == IF low % Pow2(21) # 0 /\ top % 2 = 0 THEN top + 1 ELSE top
       IN RoundNorm(s, jam, a.e + b.e + 21)

\* floor(r * 2^k / d) and whether a remainder is left, by long division
RECURSIVE LongDiv(_, _, _, _)
LongDiv(q, r, d, k) ==
  IF k = 0 THEN <<q, r # 0>>
  ELSE IF 2 * r >= d THEN LongDiv(2 * q + 1, 2 * r - d, d, k - 1)
       ELSE LongDiv(2 * q, 2 * r, d, k - 1)

\* a / b, b not zero
FDiv(a, b) ==
  LET s == (a.s + b.s) % 2 IN
  IF IsZero(a) THEN FZero(s)
  ELSE LET qr  == LongDiv(a.m \div b.m, a.m % b.m, b.m, 26)
           q   == qr[1]
           jam == IF qr[2] /\ q % 2 = 0 THEN q + 1 ELSE q
       IN RoundNorm(s, jam, a.e - b.e - 26)

\* (r * 2^k) mod d
RECURSIVE ShiftMod(_, _, _)
ShiftMod(r, d, k) == IF k = 0 THEN r ELSE ShiftMod((2 * r) % d, d, k - 1)

\* a % b as Rust computes it on f32 (fmod: exact, the sign of a), b not zero
FRem(a, b) ==
  IF IsZero(a) \/ a.e < b.e \/ (a.e = b.e /\ a.m < b.m) THEN a
  ELSE RoundNorm(a.s, ShiftMod(a.m % b.m, b.m, a.e - b.e), b.e)

\* a is a whole number below 2^24 in magnitude, and that number
IsInt(a) ==
  \/ IsZero(a)
  \/ a.e = 0
  \/ a.e < 0 /\ a.e >= -23 /\ a.m % Pow2(-a.e) = 0

IntOf(a) ==
  LET n == IF a.e < 0 THEN a.m \div Pow2(-a.e) ELSE a.m
  IN IF a.s = 1 THEN -n ELSE n

\* a == b as Rust compares f32 (the two zeros are equal)
FEq(a, b) == (IsZero(a) /\ IsZero(b)) \/ a = b

\* a < b
FLt(a, b) ==
  IF IsZero(a) /\ IsZero(b) THEN FALSE
  ELSE IF IsZero(a) THEN b.s = 0
  ELSE IF IsZero(b) THEN a.s = 1
  ELSE IF a.s # b.s THEN a.s = 1
  ELSE LET less == a.e < b.e \/ (a.e = b.e /\ a.m < b.m)
           more == a.e > b.e \/ (a.e = b.e /\ a.m > b.m)
       IN IF a.s = 0 THEN less ELSE more

----------------------------------------------------------------------------
(* Bounds and inputs *)

\* the number of turtle operations in a run
MaxSteps == 3

F0 == FZero(0)
F1 == FInt(1)
F360 == FInt(360)
F180 == FInt(180)

\* std::f32::consts::PI = 0x40490FDB
PI == [s |-> 0, m |-> 13176795, e |-> -22]

\* lengths given to forward and backward: 100, 50, -50 and 2^26 (an f32; the
\* f32s next to it are 8 and 4 away)
Lens == {FInt(100), FInt(50), FInt(-50), RoundNorm(0, 1, 26)}

\* degrees given to left and right: 90, -350 and 360 * 2^30 (an f32; the f32s
\* next to it are 32768 and 16384 away)
TurnDegs == {FInt(90), FInt(-350), RoundNorm(0, 45, 33)}

\* degrees given to set_orientation: 10, 370, -350
OrientDegs == {FInt(10), FInt(370), FInt(-350)}

\* targets given to teleport
Points == {<<FInt(50), FInt(100)>>}

\* (red, green, blue) given to set_color and set_background_color
RGBs == {<<F1, F0, F0>>}

\* texts given to write
Texts == {"hi"}

----------------------------------------------------------------------------
(* The canvas (graphic::TurtleScreen), the collaborator the turtle owns.   *)
(* calls is the sequence of calls and field writes the canvas has         *)
(* received since the current turtle operation began.                     *)

BLACK == <<F0, F0, F0, F1>>
WHITE == <<F1, F1, F1, F1>>

TurtleScreen_new ==
  [turtle_position    |-> <<F0, F0>>,
   turtle_orientation |-> F0,
   turtle_color       |-> BLACK,
   turtle_hidden      |-> FALSE,
   background_color   |-> WHITE,
   lines              |-> <<>>,
   texts              |-> <<>>,
   fills              |-> <<>>,
   calls              |-> <<>>]

add_line(sc, from, to, color) ==
  [sc EXCEPT !.lines = Append(@, [from |-> from, to |-> to, color |-> color]),
             !.calls = Append(@, [call |-> "add_line", from |-> from,
                                  to |-> to, color |-> color])]

add_text(sc, at, orientation, color, text) ==
  [sc EXCEPT !.texts = Append(@, [at |-> at, orientation |-> orientation,
                                  color |-> color, text |-> text]),
             !.calls = Append(@, [call |-> "add_text", at |-> at,
                                  orientation |-> orientation,
                                  color |-> color, text |-> text])]

floodfill(sc, at, color) ==
  [sc EXCEPT !.fills = Append(@, [at |-> at, color |-> color]),
             !.calls = Append(@, [call |-> "floodfill", at |-> at,
                                  color |-> color])]

screen_clear(sc) ==
  [sc EXCEPT !.lines = <<>>, !.texts = <<>>, !.fills = <<>>,
             !.calls = Append(@, [call |-> "clear"])]

draw_and_update(sc) ==
  [sc EXCEPT !.calls = Append(@, [call |-> "draw_and_update"])]

\* a write of a public field of the canvas: self.screen.<field> = value
set_field(sc, field, value) ==
  [sc EXCEPT ![field] = value,
             !.calls = Append(@, [call |-> field, value |-> value])]

\* TurtleScreen::screenshot(): the image of what the canvas shows
screen_screenshot(sc) ==
  [background_color   |-> sc.background_color,
   lines              |-> sc.lines,
   texts              |-> sc.texts,
   fills              |-> sc.fills,
   turtle_position    |-> sc.turtle_position,
   turtle_orientation |-> sc.turtle_orientation,
   turtle_color       |-> sc.turtle_color,
   turtle_hidden      |-> sc.turtle_hidden]

----------------------------------------------------------------------------
(* f32::sin and f32::cos.  The library functions are tabulated, for the    *)
(* radians of every orientation the inputs can produce (the multiples of  *)
(* 10 degrees in (-360, 360) and the two zeros), as <<x, sin x, cos x>>   *)
(* with the correctly rounded f32 results.                                *)

F(s, m, e) == [s |-> s, m |-> m, e |-> e]

SinCosTable == {
  <<F(0, 0, 0), F(0, 0, 0), F(0, 8388608, -23)>>,  \* 0 degrees
  <<F(0, 11712707, -26), F(0, 11653333, -26), F(0, 16522332, -24)>>,  \* 10 degrees
  <<F(0, 11712707, -25), F(0, 11476292, -25), F(0, 15765426, -24)>>,  \* 20 degrees
  <<F(0, 8784530, -24), F(0, 8388608, -24), F(0, 14529495, -24)>>,  \* 30 degrees
  <<F(0, 11712707, -24), F(0, 10784187, -24), F(0, 12852093, -24)>>,  \* 40 degrees
  <<F(0, 14640883, -24), F(0, 12852093, -24), F(0, 10784187, -24)>>,  \* 50 degrees
  <<F(0, 8784530, -23), F(0, 14529496, -24), F(0, 16777215, -25)>>,  \* 60 degrees
  <<F(0, 10248619, -23), F(0, 15765427, -24), F(0, 11476288, -25)>>,  \* 70 degrees
  <<F(0, 11712707, -23), F(0, 16522333, -24), F(0, 11653327, -26)>>,  \* 80 degrees
  <<F(0, 13176795, -23), F(0, 8388608, -23), F(1, 12303662, -48)>>,  \* 90 degrees
  <<F(0, 14640883, -23), F(0, 16522332, -24), F(1, 11653333, -26)>>,  \* 100 degrees
  <<F(0, 16104971, -23), F(0, 15765426, -24), F(1, 11476291, -25)>>,  \* 110 degrees
  <<F(0, 8784530, -22), F(0, 14529495, -24), F(1, 8388609, -24)>>,  \* 120 degrees
  <<F(0, 9516574, -22), F(0, 12852093, -24), F(1, 10784187, -24)>>,  \* 130 degrees
  <<F(0, 10248619, -22), F(0, 10784184, -24), F(1, 12852096, -24)>>,  \* 140 degrees
  <<F(0, 10980663, -22), F(0, 16777210, -25), F(1, 14529497, -24)>>,  \* 150 degrees
  <<F(0, 11712707, -22), F(0, 11476287, -25), F(1, 15765427, -24)>>,  \* 160 degrees
  <<F(0, 12444750, -22), F(0, 11653340, -26), F(1, 16522332, -24)>>,  \* 170 degrees
  <<F(0, 13176795, -22), F(1, 12303662, -47), F(1, 8388608, -23)>>,  \* 180 degrees
  <<F(0, 13908840, -22), F(1, 11653351, -26), F(1, 16522332, -24)>>,  \* 190 degrees
  <<F(0, 14640883, -22), F(1, 11476292, -25), F(1, 15765426, -24)>>,  \* 200 degrees
  <<F(0, 15372928, -22), F(1, 8388611, -24), F(1, 14529493, -24)>>,  \* 210 degrees
  <<F(0, 16104971, -22), F(1, 10784186, -24), F(1, 12852094, -24)>>,  \* 220 degrees
  <<F(0, 8418508, -21), F(1, 12852095, -24), F(1, 10784185, -24)>>,  \* 230 degrees
  <<F(0, 8784530, -21), F(1, 14529496, -24), F(1, 16777213, -25)>>,  \* 240 degrees
  <<F(0, 9150552, -21), F(1, 15765427, -24), F(1, 11476289, -25)>>,  \* 250 degrees
  <<F(0, 9516574, -21), F(1, 16522333, -24), F(1, 11653329, -26)>>,  \* 260 degrees
  <<F(0, 9882596, -21), F(1, 8388608, -23), F(0, 13426222, -50)>>,  \* 270 degrees
  <<F(0, 10248619, -21), F(1, 16522331, -24), F(0, 11653362, -26)>>,  \* 280 degrees
  <<F(0, 10614640, -21), F(1, 15765426, -24), F(0, 11476290, -25)>>,  \* 290 degrees
  <<F(0, 10980663, -21), F(1, 14529492, -24), F(0, 8388614, -24)>>,  \* 300 degrees
  <<F(0, 11346684, -21), F(1, 12852094, -24), F(0, 10784185, -24)>>,  \* 310 degrees
  <<F(0, 11712707, -21), F(1, 10784183, -24), F(0, 12852096, -24)>>,  \* 320 degrees
  <<F(0, 12078729, -21), F(1, 16777208, -25), F(0, 14529498, -24)>>,  \* 330 degrees
  <<F(0, 12444750, -21), F(1, 11476299, -25), F(0, 15765425, -24)>>,  \* 340 degrees
  <<F(0, 12810773, -21), F(1, 11653318, -26), F(0, 16522333, -24)>>,  \* 350 degrees
  <<F(1, 0, 0), F(1, 0, 0), F(0, 8388608, -23)>>,  \* -0 degrees
  <<F(1, 11712707, -26), F(1, 11653333, -26), F(0, 16522332, -24)>>,  \* -10 degrees
  <<F(1, 11712707, -25), F(1, 11476292, -25), F(0, 15765426, -24)>>,  \* -20 degrees
  <<F(1, 8784530, -24), F(1, 8388608, -24), F(0, 14529495, -24)>>,  \* -30 degrees
  <<F(1, 11712707, -24), F(1, 10784187, -24), F(0, 12852093, -24)>>,  \* -40 degrees
  <<F(1, 14640883, -24), F(1, 12852093, -24), F(0, 10784187, -24)>>,  \* -50 degrees
  <<F(1, 8784530, -23), F(1, 14529496, -24), F(0, 16777215, -25)>>,  \* -60 degrees
  <<F(1, 10248619, -23), F(1, 15765427, -24), F(0, 11476288, -25)>>,  \* -70 degrees
  <<F(1, 11712707, -23), F(1, 16522333, -24), F(0, 11653327, -26)>>,  \* -80 degrees
  <<F(1, 13176795, -23), F(1, 8388608, -23), F(1, 12303662, -48)>>,  \* -90 degrees
  <<F(1, 14640883, -23), F(1, 16522332, -24), F(1, 11653333, -26)>>,  \* -100 degrees
  <<F(1, 16104971, -23), F(1, 15765426, -24), F(1, 11476291, -25)>>,  \* -110 degrees
  <<F(1, 8784530, -22), F(1, 14529495, -24), F(1, 8388609, -24)>>,  \* -120 degrees
  <<F(1, 9516574, -22), F(1, 12852093, -24), F(1, 10784187, -24)>>,  \* -130 degrees
  <<F(1, 10248619, -22), F(1, 10784184, -24), F(1, 12852096, -24)>>,  \* -140 degrees
  <<F(1, 10980663, -22), F(1, 16777210, -25), F(1, 14529497, -24)>>,  \* -150 degrees
  <<F(1, 11712707, -22), F(1, 11476287, -25), F(1, 15765427, -24)>>,  \* -160 degrees
  <<F(1, 12444750, -22), F(1, 11653340, -26), F(1, 16522332, -24)>>,  \* -170 degrees
  <<F(1, 13176795, -22), F(0, 12303662, -47), F(1, 8388608, -23)>>,  \* -180 degrees
  <<F(1, 13908840, -22), F(0, 11653351, -26), F(1, 16522332, -24)>>,  \* -190 degrees
  <<F(1, 14640883, -22), F(0, 11476292, -25), F(1, 15765426, -24)>>,  \* -200 degrees
  <<F(1, 15372928, -22), F(0, 8388611, -24), F(1, 14529493, -24)>>,  \* -210 degrees
  <<F(1, 16104971, -22), F(0, 10784186, -24), F(1, 12852094, -24)>>,  \* -220 degrees
  <<F(1, 8418508, -21), F(0, 12852095, -24), F(1, 10784185, -24)>>,  \* -230 degrees
  <<F(1, 8784530, -21), F(0, 14529496, -24), F(1, 16777213, -25)>>,  \* -240 degrees
  <<F(1, 9150552, -21), F(0, 15765427, -24), F(1, 11476289, -25)>>,  \* -250 degrees
  <<F(1, 9516574, -21), F(0, 16522333, -24), F(1, 11653329, -26)>>,  \* -260 degrees
  <<F(1, 9882596, -21), F(0, 8388608, -23), F(0, 13426222, -50)>>,  \* -270 degrees
  <<F(1, 10248619, -21), F(0, 16522331, -24), F(0, 11653362, -26)>>,  \* -280 degrees
  <<F(1, 10614640, -21), F(0, 15765426, -24), F(0, 11476290, -25)>>,  \* -290 degrees
  <<F(1, 10980663, -21), F(0, 14529492, -24), F(0, 8388614, -24)>>,  \* -300 degrees
  <<F(1, 11346684, -21), F(0, 12852094, -24), F(0, 10784185, -24)>>,  \* -310 degrees
  <<F(1, 11712707, -21), F(0, 10784183, -24), F(0, 12852096, -24)>>,  \* -320 degrees
  <<F(1, 12078729, -21), F(0, 16777208, -25), F(0, 14529498, -24)>>,  \* -330 degrees
  <<F(1, 12444750, -21), F(0, 11476299, -25), F(0, 15765425, -24)>>,  \* -340 degrees
  <<F(1, 12810773, -21), F(0, 11653318, -26), F(0, 16522333, -24)>>   \* -350 degrees
}

sin(x) == (CHOOSE t \in SinCosTable : t[1] = x)[2]
cos(x) == (CHOOSE t \in SinCosTable : t[1] = x)[3]

----------------------------------------------------------------------------
(* The turtle: struct Turtle and its methods, as functions of the turtle   *)
(* value t.                                                               *)

Turtle_new(screen) ==
  [screen      |-> screen,
   orientation |-> F0,
   position    |-> <<F0, F0>>,
   color       |-> BLACK,
   pen         |-> "PenDown"]

\* goto drawing the line whatever the pen state
goto_ignoring_pen(t, x, y) ==
  LET drawn == add_line(t.screen, t.position, <<x, y>>, t.color)
      moved == [t EXCEPT !.position = <<x, y>>]
      shown == set_field(drawn, "turtle_position", moved.position)
  IN [moved EXCEPT !.screen = draw_and_update(shown)]

\* goto showing the move only when the pen is down
goto_quiet_when_pen_up(t, x, y) ==
  LET moved == [t EXCEPT !.position = <<x, y>>]
      drawn == add_line(t.screen, t.position, <<x, y>>, t.color)
      shown == set_field(drawn, "turtle_position", moved.position)
  IN IF t.pen = "PenDown"
     THEN [moved EXCEPT !.screen = draw_and_update(shown)]
     ELSE moved

\* goto reading the start of the line after the move
goto_drawing_after_move(t, x, y) ==
  LET moved == [t EXCEPT !.position = <<x, y>>]
      start_position == moved.position
      drawn == IF t.pen = "PenDown"
               THEN add_line(t.screen, start_position, <<x, y>>, t.color)
               ELSE t.screen
      shown == set_field(drawn, "turtle_position", moved.position)
  IN [moved EXCEPT !.screen = draw_and_update(shown)]

goto(t, x, y) ==
  LET start_position == t.position
      drawn == IF t.pen = "PenDown"
               THEN add_line(t.screen, start_position, <<x, y>>, t.color)
               ELSE t.screen
      moved == [t EXCEPT !.position = <<x, y>>]
      shown == set_field(drawn, "turtle_position", moved.position)
  IN [moved EXCEPT !.screen = draw_and_update(shown)]

\* set_orientation storing the degrees as given
set_orientation_as_given(t, deg) ==
  LET turned == [t EXCEPT !.orientation = deg]
      shown  == set_field(t.screen, "turtle_orientation", turned.orientation)
  IN [turned EXCEPT !.screen = draw_and_update(shown)]

set_orientation(t, deg) ==
  LET turned == [t EXCEPT !.orientation = FRem(deg, F360)]
      shown  == set_field(t.screen, "turtle_orientation", turned.orientation)
  IN [turned EXCEPT !.screen = draw_and_update(shown)]

\* turn keeping the new orientation to the turtle
turn_without_push(t, deg) ==
  LET orientation == t.orientation
  IN [t EXCEPT !.orientation = FRem(FAdd(orientation, deg), F360)]

turn(t, deg) ==
  LET orientation == t.orientation
  IN set_orientation(t, FAdd(orientation, deg))

\* length_to_vector without the negation of the x component
length_to_vector_unsigned(t, length) ==
  LET orientation_rad == FDiv(FMul(PI, t.orientation), F180)
      delta_x == FMul(sin(orientation_rad), length)
      delta_y == FMul(cos(orientation_rad), length)
  IN <<delta_x, delta_y>>

length_to_vector(t, length) ==
  LET orientation_rad == FDiv(FMul(PI, t.orientation), F180)
      delta_x == FMul(sin(orientation_rad), length)
      delta_y == FMul(cos(orientation_rad), length)
  IN <<FNeg(delta_x), delta_y>>

\* clear putting the turtle back at the origin
clear_resetting_position(t) ==
  [t EXCEPT !.screen = screen_clear(t.screen), !.position = <<F0, F0>>]

clear(t) == [t EXCEPT !.screen = screen_clear(t.screen)]

forward(t, length) ==
  LET x == t.position[1]
      y == t.position[2]
      d == length_to_vector(t, length)
  IN goto(t, FAdd(x, d[1]), FAdd(y, d[2]))

\* backward adding the displacement
backward_adding(t, length) ==
  LET x == t.position[1]
      y == t.position[2]
      d == length_to_vector(t, length)
  IN goto(t, FAdd(x, d[1]), FAdd(y, d[2]))

backward(t, length) ==
  LET x == t.position[1]
      y == t.position[2]
      d == length_to_vector(t, length)
  IN goto(t, FSub(x, d[1]), FSub(y, d[2]))

left(t, deg) == turn(t, deg)

\* right turning counter-clockwise
right_not_negating(t, deg) == turn(t, deg)

right(t, deg) == turn(t, FNeg(deg))

pen_up(t) == [t EXCEPT !.pen = "PenUp"]

pen_down(t) == [t EXCEPT !.pen = "PenDown"]

\* set_color repainting the lines of the canvas
set_color_repainting(t, red, green, blue) ==
  LET dyed  == [t EXCEPT !.color = <<red, green, blue, F1>>]
      shown == set_field(t.screen, "turtle_color", dyed.color)
      paint == [shown EXCEPT !.lines =
                  [i \in 1..Len(@) |-> [@[i] EXCEPT !.color = dyed.color]]]
  IN [dyed EXCEPT !.screen = draw_and_update(paint)]

set_color(t, red, green, blue) ==
  LET dyed  == [t EXCEPT !.color = <<red, green, blue, F1>>]
      shown == set_field(t.screen, "turtle_color", dyed.color)
  IN [dyed EXCEPT !.screen = draw_and_update(shown)]

set_background_color(t, red, green, blue) ==
  LET shown == set_field(t.screen, "background_color", <<red, green, blue, F1>>)
  IN [t EXCEPT !.screen = draw_and_update(shown)]

\* teleport turning the turtle to the north
teleport_facing_north(t, x, y) == set_orientation(goto(t, x, y), F0)

teleport(t, x, y) == goto(t, x, y)

\* home setting the orientation before it moves
home_turning_first(t) == teleport(set_orientation(t, F0), F0, F0)

home(t) == set_orientation(teleport(t, F0, F0), F0)

\* hide without the redraw
hide_without_redraw(t) ==
  [t EXCEPT !.screen = set_field(t.screen, "turtle_hidden", TRUE)]

hide(t) ==
  [t EXCEPT !.screen = draw_and_update(set_field(t.screen, "turtle_hidden", TRUE))]

show(t) ==
  [t EXCEPT !.screen = draw_and_update(set_field(t.screen, "turtle_hidden", FALSE))]

write(t, text) ==
  [t EXCEPT !.screen = add_text(t.screen, t.position, t.orientation, t.color, text)]

flood(t) ==
  [t EXCEPT !.screen = floodfill(t.screen, t.position, t.color)]

----------------------------------------------------------------------------
(* Values and the Environment (environ::Value, environ::Environment).      *)
(* The Environment is its stack of frames, the global frame first; a      *)
(* frame's locals map is a function from the bound names to their values. *)

Number(n) == [tag |-> "Number", val |-> n]
String(str) == [tag |-> "String", val |-> str]
Nothing == [tag |-> "Nothing", val |-> <<>>]
List(values) == [tag |-> "List", val |-> values]

\* the number of builtin calls and frame pushes and pops in a run
MaxCalls == 3

\* the values given to the builtins as arguments
Values == {String("x"), String("y"), Number(F1)}

\* argument lists of 0, 1 and 2 values
ArgLists == {<<>>} \cup {<<v>> : v \in Values}
                   \cup {<<v, w>> : v \in Values, w \in Values}

Frame_new == [locals |-> <<>>]

Environment_new == <<Frame_new>>

\* HashMap::insert(key, value)
insert(map, key, value) ==
  [k \in (DOMAIN map) \cup {key} |-> IF k = key THEN value ELSE map[k]]

\* the index of the frame env.current_frame() returns
current_frame(env) == Len(env)

\* the index of the frame env.global_frame() returns
global_frame(env) == 1

\* the evaluator enters a scripted function
push_frame(env) == Append(env, Frame_new)

\* the evaluator returns from a scripted function
pop_frame(env) == SubSeq(env, 1, Len(env) - 1)

\* Value::boolean(): true if not numerically zero
boolean(v) == ~(v.tag = "Number" /\ IsZero(v.val))

\* the outcomes of a builtin call: the environment it leaves and what the
\* caller gets: Ok(value), Err(RuntimeError(message)), or a panic
Ok(env, value) == [env |-> env, res |-> [kind |-> "Ok", val |-> value]]
Err(env, message) == [env |-> env, res |-> [kind |-> "Err", val |-> message]]
Panic(env, message) == [env |-> env, res |-> [kind |-> "Panic", val |-> message]]

\* args[i] is in bounds (i counts from 0, as in the source)
Has(args, i) == i < Len(args)
Arg(args, i) == args[i + 1]

\* format!("invalid argument: {:?}", value): the text and the value shown
invalid_argument(value) == [text |-> "invalid argument: ", shown |-> value]

\* make binding the name in the global frame
make_in_global_frame(env, args) ==
  IF ~Has(args, 0) THEN Panic(env, "index out of bounds")
  ELSE IF Arg(args, 0).tag = "String"
  THEN IF ~Has(args, 1) THEN Panic(env, "index out of bounds")
       ELSE Ok([env EXCEPT ![global_frame(env)].locals =
                  insert(@, Arg(args, 0).val, Arg(args, 1))], Nothing)
  ELSE IF ~Has(args, 1) THEN Panic(env, "index out of bounds")
       ELSE Err(env, invalid_argument(Arg(args, 1)))

make(env, args) ==
  IF ~Has(args, 0) THEN Panic(env, "index out of bounds")
  ELSE IF Arg(args, 0).tag = "String"
  THEN IF ~Has(args, 1) THEN Panic(env, "index out of bounds")
       ELSE Ok([env EXCEPT ![current_frame(env)].locals =
                  insert(@, Arg(args, 0).val, Arg(args, 1))], Nothing)
  ELSE IF ~Has(args, 1) THEN Panic(env, "index out of bounds")
       ELSE Err(env, invalid_argument(Arg(args, 1)))

\* global binding the name in the current frame
global_in_current_frame(env, args) ==
  IF ~Has(args, 0) THEN Panic(env, "index out of bounds")
  ELSE IF Arg(args, 0).tag = "String"
  THEN IF ~Has(args, 1) THEN Panic(env, "index out of bounds")
       ELSE Ok([env EXCEPT ![current_frame(env)].locals =
                  insert(@, Arg(args, 0).val, Arg(args, 1))], Nothing)
  ELSE IF ~Has(args, 1) THEN Panic(env, "index out of bounds")
       ELSE Err(env, invalid_argument(Arg(args, 1)))

global(env, args) ==
  IF ~Has(args, 0) THEN Panic(env, "index out of bounds")
  ELSE IF Arg(args, 0).tag = "String"
  THEN IF ~Has(args, 1) THEN Panic(env, "index out of bounds")
       ELSE Ok([env EXCEPT ![global_frame(env)].locals =
                  insert(@, Arg(args, 0).val, Arg(args, 1))], Nothing)
  ELSE IF ~Has(args, 1) THEN Panic(env, "index out of bounds")
       ELSE Err(env, invalid_argument(Arg(args, 1)))

not(env, args) ==
  IF ~Has(args, 0) THEN Panic(env, "index out of bounds")
  ELSE LET as_boolean == boolean(Arg(args, 0))
       IN Ok(env, Number(IF as_boolean THEN F0 ELSE F1))

----------------------------------------------------------------------------
(* The list builtins (environ/functions/types.rs).  Each returns the set   *)
(* of outcomes the call can have: one, except where a cast is out of      *)
(* range.                                                                 *)

\* the number of list builtin calls in a run
MaxListCalls == 2

\* the largest index an out-of-range cast is let to give
MaxIndex == 3

T10 == Number(FInt(10))
T20 == Number(FInt(20))

\* the lists given to the list builtins
Lists == {List(<<>>), List(<<T10>>), List(<<T10, T20>>)}

\* the numbers given to getindex: 0, 1, 2, 1.5, -0.5, -1
Indices == {Number(F0), Number(F1), Number(FInt(2)),
            Number(RoundNorm(0, 3, -1)), Number(RoundNorm(1, 1, -1)),
            Number(FInt(-1))}

\* argument lists of the list builtins: none, a list, a value that is no list
ListArgLists == {<<>>, <<Number(F1)>>} \cup {<<l>> : l \in Lists}

\* argument lists of getindex: a list and a number, and ill-typed ones
IndexArgLists ==
  {<<l, n>> : l \in Lists, n \in Indices}
    \cup {<<List(<<T10>>)>>, <<Number(F1), Number(F0)>>,
          <<List(<<T10>>), String("x")>>}

\* an f32 truncated toward zero, as an integer
Trunc(a) ==
  LET magnitude == IF a.m = 0 THEN 0
                   ELSE IF a.e >= 0 THEN a.m * Pow2(a.e)
                   ELSE IF -a.e >= 24 THEN 0
                   ELSE a.m \div Pow2(-a.e)
  IN IF a.s = 1 THEN -magnitude ELSE magnitude

\* n as usize: the truncated value when it is a usize; a negative value is
\* out of range, where the cast saturates to 0 since Rust 1.45 and is
\* undefined behaviour before, giving any index
as_usize(n) == IF Trunc(n) >= 0 THEN {Trunc(n)} ELSE 0..MaxIndex

\* the failure of get_args! on a missing or ill-typed argument
type_mismatch == [text |-> "type mismatch"]

\* get_args! matches argument i against the variant tag
Matches(args, i, tag) == Has(args, i) /\ Arg(args, i).tag = tag

\* format!("Index out of bounds: {} >= {}", idx, values.len())
index_out_of_bounds(idx, len) ==
  [text |-> "Index out of bounds: ", index |-> idx, length |-> len]

\* head returning the last element
head_from_the_end(env, args) ==
  IF ~Matches(args, 0, "List") THEN {Err(env, type_mismatch)}
  ELSE LET values == Arg(args, 0).val
       IN IF values = <<>> THEN {Ok(env, Nothing)}
          ELSE {Ok(env, values[Len(values)])}

head(env, args) ==
  IF ~Matches(args, 0, "List") THEN {Err(env, type_mismatch)}
  ELSE LET values == Arg(args, 0).val
       IN IF values = <<>> THEN {Ok(env, Nothing)}
          ELSE {Ok(env, values[1])}

tail(env, args) ==
  IF ~Matches(args, 0, "List") THEN {Err(env, type_mismatch)}
  ELSE LET values == Arg(args, 0).val
       IN IF values = <<>> THEN {Ok(env, Nothing)}
          ELSE {Ok(env, List(SubSeq(values, 2, Len(values))))}

length(env, args) ==
  IF ~Matches(args, 0, "List") THEN {Err(env, type_mismatch)}
  ELSE LET values == Arg(args, 0).val
       IN {Ok(env, Number(FInt(Len(values))))}

isempty(env, args) ==
  IF ~Matches(args, 0, "List") THEN {Err(env, type_mismatch)}
  ELSE LET values == Arg(args, 0).val
       IN {Ok(env, Number(IF values = <<>> THEN F1 ELSE F0))}

getindex(env, args) ==
  IF ~(Matches(args, 0, "List") /\ Matches(args, 1, "Number"))
  THEN {Err(env, type_mismatch)}
  ELSE LET values == Arg(args, 0).val
           n      == Arg(args, 1).val
       IN {IF idx >= Len(values)
           THEN Err(env, index_out_of_bounds(idx, Len(values)))
           ELSE Ok(env, values[idx + 1]) : idx \in as_usize(n)}

----------------------------------------------------------------------------
(* The screenshot builtin (environ/functions/env.rs).  It returns the set  *)
(* of outcomes the call can have, each with the file system it leaves.    *)

\* the number of the call up to which screenshot is called in a run
MaxShots == 2

\* argument lists of screenshot: a path in the working directory, a path in
\* a directory that does not exist, a value that is no text
ShotArgLists == {<<String("out.png")>>, <<String("/nonexistent/dir/out.png")>>,
                 <<Number(F1)>>}

\* the directories that exist: a path is its directory and a file name
Directory(name) == IF name = "/nonexistent/dir/out.png"
                   THEN "/nonexistent/dir" ELSE "."
Directories == {"."}

\* fs::File::create(name): the file is created or truncated and TRUE is
\* returned, or nothing is done and FALSE is returned; it cannot succeed in
\* a directory that does not exist, and it can fail in one that does
File_create(fs, name) ==
  {[ok |-> FALSE, files |-> fs]}
    \cup IF Directory(name) \in Directories
         THEN {[ok |-> TRUE, files |-> insert(fs, name, <<>>)]}
         ELSE {}

\* shot.save(&mut file, PNG): the image is written to the file, or the
\* encoding fails with the file as it is
save(fs, name, shot) ==
  {[ok |-> TRUE, files |-> insert(fs, name, <<shot>>)],
   [ok |-> FALSE, files |-> fs]}

\* format!("{}", e) of the std::io::Error and of the image error
io_error(name) == [text |-> "io error", path |-> name]
encode_error == [text |-> "encode error"]

\* an outcome of a builtin with the file system it leaves
Leaving(out, fs) == [env |-> out.env, res |-> out.res, files |-> fs]

\* screenshot unwrapping the result of File::create
screenshot_unwrapping(env, t, fs, args) ==
  IF ~Matches(args, 0, "String") THEN {Leaving(Err(env, type_mismatch), fs)}
  ELSE LET name == Arg(args, 0).val
           shot == screen_screenshot(t.screen)
       IN UNION {IF ~file.ok
                 THEN {Leaving(Panic(env, io_error(name)), file.files)}
                 ELSE {IF saved.ok
                       THEN Leaving(Ok(env, Nothing), saved.files)
                       ELSE Leaving(Err(env, encode_error), saved.files)
                       : saved \in save(file.files, name, shot)}
                 : file \in File_create(fs, name)}

screenshot(env, t, fs, args) ==
  IF ~Matches(args, 0, "String") THEN {Leaving(Err(env, type_mismatch), fs)}
  ELSE LET name == Arg(args, 0).val
           shot == screen_screenshot(t.screen)
       IN UNION {IF ~file.ok
                 THEN {Leaving(Err(env, io_error(name)), file.files)}
                 ELSE {IF saved.ok
                       THEN Leaving(Ok(env, Nothing), saved.files)
                       ELSE Leaving(Err(env, encode_error), saved.files)
                       : saved \in save(file.files, name, shot)}
                 : file \in File_create(fs, name)}

----------------------------------------------------------------------------
(* State *)

VARIABLES
  turtle,   \* the Turtle, its canvas in turtle.screen
  hist,     \* the last two turtle operations, oldest first, each with its
            \* arguments and the turtle as it was before the operation
  steps,    \* the number of turtle operations made
  frames,   \* the Environment's stack of frames, global frame first
  result,   \* what the last builtin call returned
  ehist,    \* the environment operations made, oldest first, each with its
            \* arguments and the frames as they were before the operation
  files     \* the file system: the content of each file that exists, by path

turtleVars == <<turtle, hist, steps>>
envVars == <<frames, result, ehist>>
vars == <<turtle, hist, steps, frames, result, ehist, files>>

\* a sequence h with e appended, cut to its last two entries
Remember(h, e) == IF Len(h) < 2 THEN Append(h, e) ELSE <<h[2], e>>

\* the turtle at the start of an operation: the canvas has received nothing yet
Begin(t) == [t EXCEPT !.screen.calls = <<>>]

\* the bookkeeping of one call of a public method of the turtle
Called(op, args) ==
  /\ hist' = Remember(hist, [op |-> op, args |-> args, before |-> turtle])
  /\ steps' = steps + 1
  /\ UNCHANGED <<envVars, files>>

Forward == \E len \in Lens :
  /\ steps < MaxSteps
  /\ turtle' = forward(Begin(turtle), len)
  /\ Called("forward", <<len>>)

Backward == \E len \in Lens :
  /\ steps < MaxSteps
  /\ turtle' = backward(Begin(turtle), len)
  /\ Called("backward", <<len>>)

Left == \E deg \in TurnDegs :
  /\ steps < MaxSteps
  /\ turtle' = left(Begin(turtle), deg)
  /\ Called("left", <<deg>>)

Right == \E deg \in TurnDegs :
  /\ steps < MaxSteps
  /\ turtle' = right(Begin(turtle), deg)
  /\ Called("right", <<deg>>)

SetOrientation == \E deg \in OrientDegs :
  /\ steps < MaxSteps
  /\ turtle' = set_orientation(Begin(turtle), deg)
  /\ Called("set_orientation", <<deg>>)

Teleport == \E p \in Points :
  /\ steps < MaxSteps
  /\ turtle' = teleport(Begin(turtle), p[1], p[2])
  /\ Called("teleport", p)

Home ==
  /\ steps < MaxSteps
  /\ turtle' = home(Begin(turtle))
  /\ Called("home", <<>>)

PenUp ==
  /\ steps < MaxSteps
  /\ turtle' = pen_up(Begin(turtle))
  /\ Called("pen_up", <<>>)

PenDown ==
  /\ steps < MaxSteps
  /\ turtle' = pen_down(Begin(turtle))
  /\ Called("pen_down", <<>>)

SetColor == \E c \in RGBs :
  /\ steps < MaxSteps
  /\ turtle' = set_color(Begin(turtle), c[1], c[2], c[3])
  /\ Called("set_color", c)

SetBackgroundColor == \E c \in RGBs :
  /\ steps < MaxSteps
  /\ turtle' = set_background_color(Begin(turtle), c[1], c[2], c[3])
  /\ Called("set_background_color", c)

Hide ==
  /\ steps < MaxSteps
  /\ turtle' = hide(Begin(turtle))
  /\ Called("hide", <<>>)

Show ==
  /\ steps < MaxSteps
  /\ turtle' = show(Begin(turtle))
  /\ Called("show", <<>>)

Write == \E text \in Texts :
  /\ steps < MaxSteps
  /\ turtle' = write(Begin(turtle), text)
  /\ Called("write", <<text>>)

Flood ==
  /\ steps < MaxSteps
  /\ turtle' = flood(Begin(turtle))
  /\ Called("flood", <<>>)

Clear ==
  /\ steps < MaxSteps
  /\ turtle' = clear(Begin(turtle))
  /\ Called("clear", <<>>)

Init ==
  /\ turtle = Turtle_new(TurtleScreen_new)
  /\ hist = <<>>
  /\ steps = 0
  /\ frames = Environment_new
  /\ result = [kind |-> "None", val |-> <<>>]
  /\ ehist = <<>>
  /\ files = <<>>

Next ==
  \/ Forward
  \/ Backward
  \/ Left
  \/ Right
  \/ SetOrientation
  \/ Teleport
  \/ Home
  \/ PenUp
  \/ PenDown
  \/ SetColor
  \/ SetBackgroundColor
  \/ Hide
  \/ Show
  \/ Write
  \/ Flood
  \/ Clear

Spec == Init /\ [][Next]_vars

----------------------------------------------------------------------------
(* The builtins, called by the evaluator with the Environment and an       *)
(* argument list, and the evaluator's frame pushes and pops.              *)

\* the bookkeeping of one environment operation
EnvCalled(op, args) ==
  /\ ehist' = Append(ehist, [op |-> op, args |-> args, before |-> frames])
  /\ UNCHANGED <<turtleVars, files>>

Make == \E args \in ArgLists :
  /\ Len(ehist) < MaxCalls
  /\ frames' = make(frames, args).env
  /\ result' = make(frames, args).res
  /\ EnvCalled("make", args)

Global == \E args \in ArgLists :
  /\ Len(ehist) < MaxCalls
  /\ frames' = global(frames, args).env
  /\ result' = global(frames, args).res
  /\ EnvCalled("global", args)

Not == \E args \in ArgLists :
  /\ Len(ehist) < MaxCalls
  /\ Len(args) <= 1
  /\ frames' = not(frames, args).env
  /\ result' = not(frames, args).res
  /\ EnvCalled("not", args)

PushFrame ==
  /\ Len(ehist) < MaxCalls
  /\ frames' = push_frame(frames)
  /\ result' = result
  /\ EnvCalled("push", <<>>)

PopFrame ==
  /\ Len(ehist) < MaxCalls
  /\ Len(frames) > 1
  /\ frames' = pop_frame(frames)
  /\ result' = result
  /\ EnvCalled("pop", <<>>)

EnvNext ==
  \/ Make
  \/ Global
  \/ Not
  \/ PushFrame
  \/ PopFrame

EnvSpec == Init /\ [][EnvNext]_vars

----------------------------------------------------------------------------
(* The list builtins called by the evaluator, at any depth of frames.      *)

CallHead == \E args \in ListArgLists : \E out \in head(frames, args) :
  /\ Len(ehist) < MaxListCalls
  /\ frames' = out.env
  /\ result' = out.res
  /\ EnvCalled("head", args)

CallTail == \E args \in ListArgLists : \E out \in tail(frames, args) :
  /\ Len(ehist) < MaxListCalls
  /\ frames' = out.env
  /\ result' = out.res
  /\ EnvCalled("tail", args)

CallLength == \E args \in ListArgLists : \E out \in length(frames, args) :
  /\ Len(ehist) < MaxListCalls
  /\ frames' = out.env
  /\ result' = out.res
  /\ EnvCalled("length", args)

CallIsEmpty == \E args \in ListArgLists : \E out \in isempty(frames, args) :
  /\ Len(ehist) < MaxListCalls
  /\ frames' = out.env
  /\ result' = out.res
  /\ EnvCalled("isempty", args)

CallGetIndex == \E args \in IndexArgLists : \E out \in getindex(frames, args) :
  /\ Len(ehist) < MaxListCalls
  /\ frames' = out.env
  /\ result' = out.res
  /\ EnvCalled("getindex", args)

ListNext ==
  \/ CallHead
  \/ CallTail
  \/ CallLength
  \/ CallIsEmpty
  \/ CallGetIndex
  \/ PushFrame

ListSpec == Init /\ [][ListNext]_vars

----------------------------------------------------------------------------
(* The screenshot builtin called by the evaluator between operations of    *)
(* the turtle and frame pushes.                                           *)

Screenshot == \E args \in ShotArgLists :
              \E out \in screenshot(frames, turtle, files, args) :
  /\ Len(ehist) < MaxShots
  /\ frames' = out.env
  /\ result' = out.res
  /\ files' = out.files
  /\ ehist' = Append(ehist, [op |-> "screenshot", args |-> args,
                             before |-> frames])
  /\ UNCHANGED turtleVars

ShotNext ==
  \/ Left
  \/ Teleport
  \/ PenUp
  \/ SetColor
  \/ PushFrame
  \/ Screenshot

ShotSpec == Init /\ [][ShotNext]_vars

----------------------------------------------------------------------------
(* Properties of the turtle, checked under Spec *)

\* the last turtle operation
Last == hist[Len(hist)]

\* the operations that move the turtle through goto
Moves == {"forward", "backward", "teleport", "home"}

Moved == hist # <<>> /\ Last.op \in Moves

\* the names of the calls a canvas received, in order
CallNames(calls) == [i \in 1..Len(calls) |-> calls[i].call]

IsAddLine(c) == c.call = "add_line"

\* the calls of the move itself: up to the first write of the orientation
RECURSIVE MovePart(_)
MovePart(calls) ==
  IF calls = <<>> \/ Head(calls).call = "turtle_orientation" THEN <<>>
  ELSE <<Head(calls)>> \o MovePart(Tail(calls))

\* C1: after any sequence of operations, a move (forward, backward, teleport,
\* the teleport inside home) made with the pen up gives the canvas no add_line
\* call, and one made with the pen down gives it exactly one, from the
\* position before the move to the new position, in the current colour.
C1_OneLinePerMovePenDown ==
  Moved =>
    LET before == Last.before
        drawn  == SelectSeq(turtle.screen.calls, IsAddLine)
        line   == [call |-> "add_line", from |-> before.position,
                   to |-> turtle.position, color |-> turtle.color]
    IN /\ turtle.color = before.color
       /\ before.pen = "PenUp" => drawn = <<>>
       /\ before.pen = "PenDown" => drawn = <<line>>

\* a pen-up move to another place, made after a pen-down move drew a line
C1_Witness ==
  /\ Moved
  /\ Last.before.pen = "PenUp"
  /\ turtle.position # Last.before.position
  /\ Len(turtle.screen.lines) = 1
  /\ Len(hist) = 2 /\ hist[1].op = "pen_up"

\* C2: every move, pen up or down, turtle hidden or shown, writes the new
\* position to the canvas's turtle_position and redraws exactly once: the
\* add_line call (if any), then the position, then the redraw.
C2_MovePushesPositionThenRedraws ==
  Moved =>
    LET part == MovePart(turtle.screen.calls)
    IN /\ turtle.screen.turtle_position = turtle.position
       /\ CallNames(part) \in
            {<<"turtle_position", "draw_and_update">>,
             <<"add_line", "turtle_position", "draw_and_update">>}
       /\ part[Len(part) - 1].value = turtle.position
       /\ Last.op # "home" => part = turtle.screen.calls

\* a move of a hidden turtle with the pen up
C2_Witness ==
  /\ Moved
  /\ Last.before.pen = "PenUp"
  /\ Last.before.screen.turtle_hidden
  /\ turtle.position # Last.before.position

\* positions are equal as Rust compares tuples of f32
PosEq(p, q) == FEq(p[1], q[1]) /\ FEq(p[2], q[2])

\* the last two operations were op1(args) and then op2(args), the same args
Pair(op1, op2) ==
  /\ Len(hist) = 2
  /\ hist[1].op = op1
  /\ hist[2].op = op2
  /\ hist[1].args = hist[2].args

\* orientations a and b, whole degrees, differ by a multiple of 360
Congruent360(a, b) ==
  IsInt(a) /\ IsInt(b) /\ (IntOf(a) - IntOf(b)) % 360 = 0

\* every orientation of the model is a whole number of degrees
OrientationIsWhole == IsInt(turtle.orientation)

\* C7 as claimed: forward(L) followed at once by backward(L) returns the
\* position to its value before the forward call.
C7_ForwardBackwardRestoresPosition ==
  Pair("forward", "backward") =>
    PosEq(turtle.position, hist[1].before.position)

\* C7: forward(L) followed at once by backward(L) leaves the orientation as it
\* was, and returns the position to its value before the forward call when
\* the two sums forward computes, x + dx and y + dy, are free of f32 rounding.
C7_ForwardBackwardRestoresPositionIfExact ==
  Pair("forward", "backward") =>
    LET start == hist[1].before
        d     == length_to_vector(start, hist[1].args[1])
    IN /\ hist[2].before.orientation = start.orientation
       /\ turtle.orientation = start.orientation
       /\ (AddIsExact(start.position[1], d[1])
            /\ AddIsExact(start.position[2], d[2])) =>
              PosEq(turtle.position, hist[1].before.position)

\* forward and backward at a heading that is not north, the sums exact, the
\* turtle back where it was
C7_Witness ==
  /\ Pair("forward", "backward")
  /\ ~IsZero(hist[1].before.orientation)
  /\ AddIsExact(hist[1].before.position[1],
                length_to_vector(hist[1].before, hist[1].args[1])[1])
  /\ AddIsExact(hist[1].before.position[2],
                length_to_vector(hist[1].before, hist[1].args[1])[2])
  /\ ~PosEq(hist[2].before.position, hist[1].before.position)
  /\ PosEq(turtle.position, hist[1].before.position)

\* C8 as claimed: left(D) followed by right(D) restores the orientation to a
\* value congruent modulo 360 to the orientation before the left call.
C8_LeftRightRestoresOrientation ==
  Pair("left", "right") =>
    Congruent360(turtle.orientation, hist[1].before.orientation)

\* C8: left(D) followed by right(D) restores the orientation to a value
\* congruent modulo 360 to the orientation before the left call when the two
\* sums, orientation + D in left and orientation - D in right, are free of
\* f32 rounding.
C8_LeftRightRestoresOrientationIfExact ==
  (/\ Pair("left", "right")
   /\ AddIsExact(hist[1].before.orientation, hist[1].args[1])
   /\ AddIsExact(hist[2].before.orientation, FNeg(hist[2].args[1]))) =>
     Congruent360(turtle.orientation, hist[1].before.orientation)

\* left and right, the sums exact, the orientation restored to a value that
\* is congruent to the first but not equal to it
C8_Witness ==
  /\ Pair("left", "right")
  /\ AddIsExact(hist[1].before.orientation, hist[1].args[1])
  /\ AddIsExact(hist[2].before.orientation, FNeg(hist[2].args[1]))
  /\ ~FEq(turtle.orientation, hist[1].before.orientation)
  /\ Congruent360(turtle.orientation, hist[1].before.orientation)

SetOrientationDone == hist # <<>> /\ Last.op = "set_orientation"

\* the orientation set_orientation(deg) would have stored instead
StoredFor(deg) == set_orientation(Begin(Last.before), deg).orientation

\* C9 as claimed: set_orientation stores the degrees normalised to one range,
\* so any two arguments that differ by a multiple of 360 leave the same stored
\* orientation.
C9_CongruentDegreesStoreTheSame ==
  SetOrientationDone =>
    \A deg \in OrientDegs :
      Congruent360(deg, Last.args[1]) =>
        FEq(StoredFor(deg), turtle.orientation)

\* C9: set_orientation(deg) stores the remainder deg % 360, which has the sign
\* of deg, lies strictly between -360 and 360 and differs from deg by a
\* multiple of 360; so any two arguments of the same sign that differ by a
\* multiple of 360 (370 and 10) leave the same stored orientation; the stored
\* value is written to the canvas's turtle_orientation, and then comes the
\* one redraw.
C9_SetOrientationStoresRemainder ==
  SetOrientationDone =>
    LET deg == Last.args[1]
    IN /\ FLt(FInt(-360), turtle.orientation)
       /\ FLt(turtle.orientation, F360)
       /\ IsZero(turtle.orientation) \/ turtle.orientation.s = deg.s
       /\ Congruent360(turtle.orientation, deg)
       /\ \A other \in OrientDegs :
            (Congruent360(other, deg) /\ other.s = deg.s) =>
              FEq(StoredFor(other), turtle.orientation)
       /\ turtle.screen.turtle_orientation = turtle.orientation
       /\ turtle.screen.calls =
            <<[call |-> "turtle_orientation", value |-> turtle.orientation],
              [call |-> "draw_and_update"]>>

\* set_orientation(370) has stored 10
C9_Witness ==
  /\ SetOrientationDone
  /\ Last.args[1] = FInt(370)
  /\ turtle.orientation = FInt(10)
  /\ StoredFor(FInt(10)) = turtle.orientation

\* C10: home() does what teleport(0, 0) followed by set_orientation(0) does:
\* it ends at position (0, 0) with orientation 0, and the canvas receives the
\* line from the previous position to (0, 0) exactly when the pen is down,
\* then the position and a redraw, then the orientation and a second redraw.
C10_HomeIsTeleportThenSetOrientation ==
  (hist # <<>> /\ Last.op = "home") =>
    LET before == Last.before
        origin == <<F0, F0>>
        line   == [call |-> "add_line", from |-> before.position,
                   to |-> origin, color |-> before.color]
        pushes == <<[call |-> "turtle_position", value |-> origin],
                    [call |-> "draw_and_update"],
                    [call |-> "turtle_orientation", value |-> F0],
                    [call |-> "draw_and_update"]>>
    IN /\ turtle.position = origin
       /\ turtle.orientation = F0
       /\ turtle.screen.calls =
            IF before.pen = "PenDown" THEN <<line>> \o pushes ELSE pushes
       /\ turtle = set_orientation(teleport(Begin(before), F0, F0), F0)

\* home from another place and another heading, the pen down
C10_Witness ==
  /\ hist # <<>> /\ Last.op = "home"
  /\ Last.before.pen = "PenDown"
  /\ ~PosEq(Last.before.position, <<F0, F0>>)
  /\ ~IsZero(Last.before.orientation)

\* the absolute value of an f32
FAbs(a) == [a EXCEPT !.s = 0]

\* the orientation is a whole multiple of 90 degrees
AtRightAngle(o) == IsInt(o) /\ IntOf(o) % 90 = 0

\* the displacement of forward(length) the heading-vector rule gives over the
\* reals at an orientation that is a multiple of 90 degrees
IdealVector(o, len) ==
  LET ccw == IntOf(o) % 360
  IN CASE ccw = 0   -> <<F0, len>>
       [] ccw = 90  -> <<FNeg(len), F0>>
       [] ccw = 180 -> <<F0, FNeg(len)>>
       [] ccw = 270 -> <<len, F0>>

\* the turtle after forward(100) on a new turtle
AfterForward100 == forward(Begin(Turtle_new(TurtleScreen_new)), FInt(100))

ForwardDone == hist # <<>> /\ Last.op = "forward"

\* forward(100) on a new turtle moves to (0, 100) and records one line from
\* (0, 0) to (0, 100); right(90) then makes the orientation -90; forward(50)
\* then moves to (50, 100)
ForwardRightForward ==
  /\ (steps = 1 /\ ForwardDone /\ Last.args = <<FInt(100)>>) =>
       /\ PosEq(turtle.position, <<F0, FInt(100)>>)
       /\ Len(turtle.screen.lines) = 1
       /\ PosEq(turtle.screen.lines[1].from, <<F0, F0>>)
       /\ PosEq(turtle.screen.lines[1].to, <<F0, FInt(100)>>)
  /\ (steps = 2 /\ hist[1].op = "forward" /\ hist[1].args = <<FInt(100)>>
        /\ Last.op = "right" /\ Last.args = <<FInt(90)>>) =>
       turtle.orientation = FInt(-90)
  /\ (steps = 3 /\ hist[1].before = AfterForward100
        /\ hist[1].op = "right" /\ hist[1].args = <<FInt(90)>>
        /\ ForwardDone /\ Last.args = <<FInt(50)>>) =>
       PosEq(turtle.position, <<FInt(50), FInt(100)>>)

\* C11 as claimed: forward(100), right(90), forward(50) on a new turtle go to
\* (0, 100) with one line from (0, 0), to orientation -90, and to (50, 100);
\* and at every orientation that is a multiple of 90 the displacement of
\* forward(L) is (0, L), (-L, 0), (0, -L), (L, 0) for 0, 90, 180, 270 degrees
\* counter-clockwise.
C11_RightAngleDisplacementIsIdeal ==
  /\ ForwardRightForward
  /\ (ForwardDone /\ AtRightAngle(Last.before.orientation)) =>
       PosEq(length_to_vector(Last.before, Last.args[1]),
             IdealVector(Last.before.orientation, Last.args[1]))

\* C11: forward(100), right(90), forward(50) on a new turtle go to (0, 100)
\* with one line from (0, 0), to orientation -90, and to (50, 100); at
\* orientation 0 the displacement of forward(L) is (0, L); at the other
\* multiples of 90 the component along the heading is -L, -L, L (x at 90, y at
\* 180, x at 270 degrees counter-clockwise) and the component across it is
\* the f32 residue of sin or cos at the f32 radian, smaller in magnitude than
\* |L| / 2^23 and not zero in general.
C11_RightAngleDisplacementUpToResidue ==
  /\ ForwardRightForward
  /\ (ForwardDone /\ AtRightAngle(Last.before.orientation)) =>
       LET len    == Last.args[1]
           d      == length_to_vector(Last.before, len)
           ideal  == IdealVector(Last.before.orientation, len)
           along  == IF IsZero(ideal[1]) THEN 2 ELSE 1
           across == 3 - along
           small  == FMul(FAbs(len), RoundNorm(0, 1, -23))
       IN /\ FEq(d[along], ideal[along])
          /\ FLt(FAbs(d[across]), small)
          /\ IsZero(Last.before.orientation) => IsZero(d[across])

\* the third step of forward(100), right(90), forward(50): the turtle is at
\* (50, 100) although the y component of the displacement is not zero
C11_Witness ==
  /\ steps = 3 /\ hist[1].before = AfterForward100
  /\ hist[1].op = "right" /\ hist[1].args = <<FInt(90)>>
  /\ ForwardDone /\ Last.args = <<FInt(50)>>
  /\ Last.before.orientation = FInt(-90)
  /\ ~IsZero(length_to_vector(Last.before, Last.args[1])[2])
  /\ PosEq(turtle.position, <<FInt(50), FInt(100)>>)

\* the operations of the turtle that end with a redraw
Redrawing == {"forward", "backward", "teleport", "left", "right",
              "set_orientation", "home", "set_color", "set_background_color",
              "hide", "show"}

IsRedraw(c) == c.call = "draw_and_update"

\* the last operation changed the turtle or what the canvas holds
Mutated == hist # <<>> /\ Begin(turtle) # Begin(Last.before)

\* C15 as claimed: every operation of the turtle that changes the turtle or
\* the canvas is followed by a call of draw_and_update before it returns.
C15_RedrawAfterEveryMutation ==
  Mutated =>
    /\ turtle.screen.calls # <<>>
    /\ IsRedraw(turtle.screen.calls[Len(turtle.screen.calls)])

\* C15: forward, backward, teleport, left, right, set_orientation, home,
\* set_color, set_background_color, hide and show end with a call of
\* draw_and_update, whether they change anything or not (one redraw, two for
\* home); pen_up and pen_down make no call on the canvas; write, flood and
\* clear make the one call add_text, floodfill, clear and no redraw.
C15_RedrawAfterMovesTurnsAndSettings ==
  hist # <<>> =>
    LET calls == turtle.screen.calls
    IN /\ Last.op \in Redrawing =>
            /\ calls # <<>>
            /\ IsRedraw(calls[Len(calls)])
            /\ Len(SelectSeq(calls, IsRedraw)) =
                 IF Last.op = "home" THEN 2 ELSE 1
       /\ Last.op \in {"pen_up", "pen_down"} => calls = <<>>
       /\ Last.op = "write" => CallNames(calls) = <<"add_text">>
       /\ Last.op = "flood" => CallNames(calls) = <<"floodfill">>
       /\ Last.op = "clear" => CallNames(calls) = <<"clear">>

\* the pen has been lifted, and a text written at another place: the canvas
\* holds the text and was not asked to redraw
C15_Witness ==
  /\ Len(hist) = 2
  /\ hist[1].op = "pen_up" /\ hist[1].before.pen = "PenDown"
  /\ hist[1].before.screen.calls # <<>>
  /\ hist[2].before.screen.calls = <<>>
  /\ Last.op = "write"
  /\ Len(turtle.screen.texts) = 1
  /\ CallNames(turtle.screen.calls) = <<"add_text">>

\* C16: clear() leaves the canvas without lines and texts and leaves the
\* turtle's position, orientation, pen state and colour, and the pose the
\* canvas shows, as they were; a move made right after clear() with the pen
\* down draws its line from the position the turtle had before clear(), and
\* that line is the only one on the canvas.
C16_ClearKeepsTheTurtle ==
  /\ (hist # <<>> /\ Last.op = "clear") =>
       LET before == Last.before
       IN /\ turtle.screen.lines = <<>>
          /\ turtle.screen.texts = <<>>
          /\ turtle.position = before.position
          /\ turtle.orientation = before.orientation
          /\ turtle.pen = before.pen
          /\ turtle.color = before.color
          /\ turtle.screen.turtle_position = before.screen.turtle_position
          /\ turtle.screen.turtle_orientation = before.screen.turtle_orientation
          /\ turtle.screen.turtle_color = before.screen.turtle_color
  /\ (Len(hist) = 2 /\ hist[1].op = "clear" /\ Moved
        /\ Last.before.pen = "PenDown") =>
       LET drawn == SelectSeq(turtle.screen.calls, IsAddLine)
       IN /\ Len(drawn) = 1
          /\ drawn[1].from = hist[1].before.position
          /\ turtle.screen.lines =
               <<[from |-> hist[1].before.position, to |-> turtle.position,
                  color |-> hist[1].before.color]>>

\* a canvas with a line cleared while the turtle is away from the origin, and
\* then a move with the pen down
C16_Witness ==
  /\ Len(hist) = 2 /\ hist[1].op = "clear" /\ Moved
  /\ Last.before.pen = "PenDown"
  /\ hist[1].before.screen.lines # <<>>
  /\ ~PosEq(hist[1].before.position, <<F0, F0>>)
  /\ ~PosEq(turtle.position, hist[1].before.position)
  /\ Len(turtle.screen.lines) = 1

\* the operations that turn the turtle
Turns == {"left", "right", "set_orientation"}

Turned == hist # <<>> /\ Last.op \in Turns

\* C17: forward, backward and teleport leave the orientation, the pen state
\* and the colour as they were; left, right and set_orientation leave the
\* position, the pen state and the colour as they were and give the canvas no
\* add_line call, pen up or down, so the lines of the canvas stay as well.
C17_MovesAndTurnsAreIndependent ==
  /\ (hist # <<>> /\ Last.op \in {"forward", "backward", "teleport"}) =>
       /\ turtle.orientation = Last.before.orientation
       /\ turtle.pen = Last.before.pen
       /\ turtle.color = Last.before.color
       /\ turtle.screen.turtle_orientation =
            Last.before.screen.turtle_orientation
  /\ Turned =>
       /\ turtle.position = Last.before.position
       /\ turtle.pen = Last.before.pen
       /\ turtle.color = Last.before.color
       /\ SelectSeq(turtle.screen.calls, IsAddLine) = <<>>
       /\ turtle.screen.lines = Last.before.screen.lines
       /\ turtle.screen.turtle_position = Last.before.screen.turtle_position

\* a teleport at a heading that is not north, the pen down
C17_Witness ==
  /\ hist # <<>> /\ Last.op = "teleport"
  /\ ~IsZero(turtle.orientation)
  /\ Last.before.pen = "PenDown"
  /\ ~PosEq(turtle.position, Last.before.position)

\* the colour set_color(red, green, blue) sets: opaque
Opaque(rgb) == <<rgb[1], rgb[2], rgb[3], F1>>

\* C18: set_color(r, g, b) sets the turtle's colour and the colour the canvas
\* shows to (r, g, b) with opaque alpha and leaves the position, the
\* orientation, the pen state and the lines of the canvas, colours included,
\* as they were; no other operation changes the colour or the lines already
\* on a canvas it does not clear, and a move made with the pen down after
\* set_color adds one line, in the colour set.
C18_SetColorIsForLaterLines ==
  /\ (hist # <<>> /\ Last.op = "set_color") =>
       /\ turtle.color = Opaque(Last.args)
       /\ turtle.screen.turtle_color = Opaque(Last.args)
       /\ turtle.position = Last.before.position
       /\ turtle.orientation = Last.before.orientation
       /\ turtle.pen = Last.before.pen
       /\ turtle.screen.lines = Last.before.screen.lines
  /\ (hist # <<>> /\ Last.op # "set_color") =>
       turtle.color = Last.before.color
  /\ (hist # <<>> /\ Last.op # "clear") =>
       LET old == Last.before.screen.lines
       IN /\ Len(turtle.screen.lines) >= Len(old)
          /\ SubSeq(turtle.screen.lines, 1, Len(old)) = old
  /\ (Len(hist) = 2 /\ hist[1].op = "set_color" /\ Moved
        /\ Last.before.pen = "PenDown") =>
       LET old == hist[1].before.screen.lines
       IN /\ Len(turtle.screen.lines) = Len(old) + 1
          /\ turtle.screen.lines[Len(old) + 1].color = Opaque(hist[1].args)

\* a black line, then set_color(1, 0, 0), then a move with the pen down: the
\* canvas holds the black line and a red one
C18_Witness ==
  /\ Len(hist) = 2 /\ hist[1].op = "set_color" /\ Moved
  /\ Len(turtle.screen.lines) = 2
  /\ turtle.screen.lines[1].color = BLACK
  /\ turtle.screen.lines[2].color = <<F1, F0, F0, F1>>

\* the writes of the orientation among the calls a canvas received
IsOrientationPush(c) == c.call = "turtle_orientation"

\* C19: after any sequence of operations, those of left, right,
\* set_orientation and home with positive and negative degrees among them,
\* the stored orientation lies strictly between -360 and 360 and is the
\* orientation the canvas shows; left, right, set_orientation and home write
\* the orientation to the canvas once, the value they store.
C19_OrientationInRangeAndShown ==
  /\ FLt(FInt(-360), turtle.orientation)
  /\ FLt(turtle.orientation, F360)
  /\ turtle.screen.turtle_orientation = turtle.orientation
  /\ (hist # <<>> /\ Last.op \in Turns \cup {"home"}) =>
       SelectSeq(turtle.screen.calls, IsOrientationPush) =
         <<[call |-> "turtle_orientation", value |-> turtle.orientation]>>

\* left(-350) at orientation -350 has stored -340
C19_Witness ==
  /\ hist # <<>> /\ Last.op = "left"
  /\ Last.args = <<FInt(-350)>>
  /\ Last.before.orientation = FInt(-350)
  /\ turtle.orientation = FInt(-340)
  /\ turtle.screen.turtle_orientation = FInt(-340)

\* the lines ls are linked, each starting where the one before it ends
Linked(ls) == \A i \in 1..(Len(ls) - 1) : ls[i + 1].from = ls[i].to

\* the lines of the canvas are one chain from (0, 0) to the turtle
Connected(t) ==
  LET ls == t.screen.lines
  IN IF ls = <<>> THEN t.position = <<F0, F0>>
     ELSE /\ ls[1].from = <<F0, F0>>
          /\ Linked(ls)
          /\ ls[Len(ls)].to = t.position

\* the last line of the canvas ends at the turtle
Attached(t) ==
  LET ls == t.screen.lines
  IN ls # <<>> /\ ls[Len(ls)].to = t.position

\* C20: a move with the pen down adds to the lines of the canvas one line,
\* from the position before the move to the position right after it; when
\* the last line ended at the turtle before the move (the pen was down at the
\* move before, and no move and no clear() came since), the new line starts
\* where that line ended; an operation other than a move and clear() keeps
\* the last line ending at the turtle; and a new turtle has the pen down and
\* a connected chain of lines from (0, 0) to its position, which every
\* operation other than pen_up and clear() keeps.
C20_LinesTraceThePath ==
  /\ (Moved /\ Last.before.pen = "PenDown") =>
       LET old == Last.before.screen.lines
           ls  == turtle.screen.lines
       IN /\ Len(ls) = Len(old) + 1
          /\ SubSeq(ls, 1, Len(old)) = old
          /\ ls[Len(ls)].from = Last.before.position
          /\ ls[Len(ls)].to = turtle.position
          /\ Attached(Last.before) =>
               ls[Len(ls)].from = old[Len(old)].to
  /\ (hist # <<>> /\ ~Moved /\ Last.op # "clear"
        /\ Attached(Last.before)) =>
       Attached(turtle)
  /\ hist = <<>> => (Connected(turtle) /\ turtle.pen = "PenDown")
  /\ (hist # <<>> /\ Last.op \notin {"pen_up", "clear"}
        /\ Connected(Last.before) /\ Last.before.pen = "PenDown") =>
       (Connected(turtle) /\ turtle.pen = "PenDown")

\* three moves with the pen down: three lines, not all of them vertical, in
\* one chain from (0, 0) to the turtle, which is not at (0, 0)
C20_Witness ==
  /\ Moved /\ Last.before.pen = "PenDown"
  /\ Len(turtle.screen.lines) = 3
  /\ \E i \in 1..3 : turtle.screen.lines[i].to[1] # turtle.screen.lines[i].from[1]
  /\ Connected(turtle)
  /\ ~PosEq(turtle.position, <<F0, F0>>)

----------------------------------------------------------------------------
(* Properties of the environment builtins, checked under EnvSpec *)

\* the last environment operation
ELast == ehist[Len(ehist)]

\* entry e of ehist is a call of builtin op with a text name and a value
Binds(e, op) ==
  e.op = op /\ Len(e.args) >= 2 /\ e.args[1].tag = "String"

\* map is map0 with name bound to value and nothing else changed
BoundIn(map, map0, name, value) ==
  /\ DOMAIN map = (DOMAIN map0) \cup {name}
  /\ map[name] = value
  /\ \A n \in (DOMAIN map0) \ {name} : map[n] = map0[n]

\* C3: make(name, value) with a text name succeeds and binds name to value in
\* the innermost frame, whatever was bound to it before, and changes no other
\* frame; when that frame is popped right after, the frames are the outer
\* frames as they were before the make, the binding gone with the frame.
C3_MakeBindsInnermostFrame ==
  /\ (ehist # <<>> /\ Binds(ELast, "make")) =>
       LET before == ELast.before
           top    == Len(before)
       IN /\ result = [kind |-> "Ok", val |-> Nothing]
          /\ Len(frames) = top
          /\ BoundIn(frames[top].locals, before[top].locals,
                     ELast.args[1].val, ELast.args[2])
          /\ \A i \in 1..(top - 1) : frames[i] = before[i]
  /\ (Len(ehist) >= 2 /\ ELast.op = "pop"
        /\ Binds(ehist[Len(ehist) - 1], "make")) =>
       LET before == ehist[Len(ehist) - 1].before
       IN frames = SubSeq(before, 1, Len(before) - 1)

\* a make in a nested frame, and the frame popped: no binding is left
C3_Witness ==
  /\ Len(ehist) = 3
  /\ ehist[1].op = "push"
  /\ Binds(ehist[2], "make")
  /\ ehist[3].op = "pop"
  /\ frames = Environment_new

\* C4: global(name, value) with a text name succeeds and binds name to value
\* in the global frame, from any depth, and changes no other frame; the
\* binding is still in the global frame after any pushes and pops that follow.
C4_GlobalBindsGlobalFrame ==
  /\ (ehist # <<>> /\ Binds(ELast, "global")) =>
       LET before == ELast.before
       IN /\ result = [kind |-> "Ok", val |-> Nothing]
          /\ Len(frames) = Len(before)
          /\ BoundIn(frames[1].locals, before[1].locals,
                     ELast.args[1].val, ELast.args[2])
          /\ \A i \in 2..Len(before) : frames[i] = before[i]
  /\ \A i \in 1..Len(ehist) :
       (/\ Binds(ehist[i], "global")
        /\ \A j \in (i + 1)..Len(ehist) : ehist[j].op \in {"push", "pop"}) =>
         /\ ehist[i].args[1].val \in DOMAIN frames[1].locals
         /\ frames[1].locals[ehist[i].args[1].val] = ehist[i].args[2]

\* a global in a nested frame, and the frame popped: the binding is there
C4_Witness ==
  /\ Len(ehist) = 3
  /\ ehist[1].op = "push"
  /\ Binds(ehist[2], "global")
  /\ ehist[3].op = "pop"
  /\ Len(frames) = 1
  /\ frames[1].locals[ehist[2].args[1].val] = ehist[2].args[2]

\* C5: make or global called with two arguments, the first not a text,
\* returns a failure whose message shows that first argument, and changes
\* no frame.
C5_ErrorShowsOffendingValue ==
  (/\ ehist # <<>>
   /\ ELast.op \in {"make", "global"}
   /\ Len(ELast.args) = 2
   /\ ELast.args[1].tag # "String") =>
     /\ result.kind = "Err"
     /\ result.val.shown = ELast.args[1]
     /\ frames = ELast.before

\* C6: make or global called with fewer than two arguments, and not called
\* with none, return a failure value and change no frame.
C6_TooFewArgumentsFail ==
  (/\ ehist # <<>>
   /\ \/ ELast.op \in {"make", "global"} /\ Len(ELast.args) < 2
      \/ ELast.op = "not" /\ Len(ELast.args) < 1) =>
     /\ result.kind = "Err"
     /\ frames = ELast.before


----------------------------------------------------------------------------
(* Properties of the list builtins, checked under ListSpec *)

\* the last call was builtin op with well-typed arguments
ListCall(op) ==
  /\ ehist # <<>> /\ ELast.op = op
  /\ Matches(ELast.args, 0, "List")
  /\ op = "getindex" => Matches(ELast.args, 1, "Number")

\* C12: get_index(L, n) on a list L and a number n fails with an
\* out-of-bounds error exactly when n truncated toward zero is >= length(L),
\* the error carrying that index and the length of L; in every other case it
\* returns the element of L at index trunc(n).
C12_GetIndexFailsExactlyPastTheEnd ==
  ListCall("getindex") =>
    LET values == ELast.args[1].val
        index  == Trunc(ELast.args[2].val)
    IN IF index >= Len(values)
       THEN /\ result.kind = "Err"
            /\ result.val = index_out_of_bounds(index, Len(values))
       ELSE /\ result.kind = "Ok"
            /\ index \in 0..(Len(values) - 1)
            /\ result.val = values[index + 1]


\* C13: for every list L, head(L) and tail(L) return Nothing when L is empty;
\* otherwise head(L) is the first element of L and tail(L) is a list of the
\* length(L) - 1 remaining elements in order, so that head(L) prepended to
\* tail(L) is L; length(L) is the element count; is_empty(L) is 1 when the
\* count is 0 and 0 otherwise.  None of the calls changes a frame of the
\* environment.
C13_ListAccessors ==
  \A op \in {"head", "tail", "length", "isempty"} :
    ListCall(op) =>
      LET values == ELast.args[1].val
          count  == Len(values)
      IN /\ result.kind = "Ok"
         /\ frames = ELast.before
         /\ (op = "head" /\ count = 0) => result.val = Nothing
         /\ (op = "head" /\ count > 0) => result.val = values[1]
         /\ (op = "tail" /\ count = 0) => result.val = Nothing
         /\ (op = "tail" /\ count > 0) =>
              /\ result.val.tag = "List"
              /\ Len(result.val.val) = count - 1
              /\ \A i \in 1..(count - 1) : result.val.val[i] = values[i + 1]
              /\ \A first \in head(frames, ELast.args) :
                   <<first.res.val>> \o result.val.val = values
         /\ op = "length" => result.val = Number(FInt(count))
         /\ op = "isempty" =>
              result.val = Number(IF count = 0 THEN F1 ELSE F0)

\* tail of the list [10, 20], called in a nested frame, has returned [20]
C13_Witness ==
  /\ ListCall("tail")
  /\ ELast.args = <<List(<<T10, T20>>)>>
  /\ result = [kind |-> "Ok", val |-> List(<<T20>>)]
  /\ Len(frames) = 2


----------------------------------------------------------------------------
(* Properties of the screenshot builtin, checked under ShotSpec *)

\* the step is a call of screenshot with a path
ScreenshotStep ==
  /\ Len(ehist') = Len(ehist) + 1
  /\ ehist'[Len(ehist')].op = "screenshot"
  /\ Matches(ehist'[Len(ehist')].args, 0, "String")

\* C14: a screenshot call never crashes; when the directory of the path does
\* not exist the file cannot be created and the call returns the I/O failure;
\* and a call that returns the I/O failure of the file creation leaves the
\* turtle (position, orientation, pen, colour), the canvas with its drawn
\* primitives, every frame of the environment and the files unchanged.
C14_FailedScreenshotChangesNothing ==
  [][ScreenshotStep =>
       LET name == ehist'[Len(ehist')].args[1].val
       IN /\ result'.kind \in {"Ok", "Err"}
          /\ Directory(name) \notin Directories =>
               result' = [kind |-> "Err", val |-> io_error(name)]
          /\ result' = [kind |-> "Err", val |-> io_error(name)] =>
               /\ turtle' = turtle
               /\ frames' = frames
               /\ files' = files]_vars

\* screenshot("/nonexistent/dir/out.png") has failed, called in a nested frame
\* after the turtle drew a line, lifted the pen and turned
C14_Witness ==
  /\ ehist # <<>> /\ ELast.op = "screenshot"
  /\ ELast.args = <<String("/nonexistent/dir/out.png")>>
  /\ result = [kind |-> "Err", val |-> io_error("/nonexistent/dir/out.png")]
  /\ Len(frames) = 2
  /\ Len(turtle.screen.lines) = 1
  /\ turtle.pen = "PenUp"
  /\ ~IsZero(turtle.orientation)
  /\ ~PosEq(turtle.position, <<F0, F0>>)

====
